---- MODULE Spec2Model ----
(***************************************************************************)
(* Model of utils/src/base64.rs: the Base64 encoder and decoder.           *)
(*                                                                         *)
(* A Rust String / &str is modelled as the sequence of its UTF-8 bytes     *)
(* (s.len() and s.as_bytes() are byte-level); a u8 is a number in 0..255   *)
(* and every u8 operation keeps its width.                                 *)
(***************************************************************************)
EXTENDS Integers, Sequences, FiniteSets

VARIABLES
    bytes,   \* the byte buffer handed to encode
    text,    \* the Base64 string: encode's result, decode's argument
    result,  \* decode's Result<Vec<u8>>
    pc       \* "input" | "text" | "done"

vars == <<bytes, text, result, pc>>

----------------------------------------------------------------------------
(* Bounds of the model.                                                    *)

\* longest byte buffer given to encode
MaxBytes == 5
\* longest decode argument, in characters, over the full character set
MaxShort == 4
\* longest decode argument, in characters, over the one-byte character set
MaxLong == 8

\* byte values given to encode: all-zero, all-one and mixed bit patterns
\* (251 >> 2 is 62, 255 & 63 is 63: the last two table entries)
ByteVals == {0, 1, 114, 170, 251, 255}

\* characters of decode's arguments, each as its UTF-8 bytes:
\* 'A' (value 0), 'Q' (16), 'b' (27), '/' (63), '=' (padding), '#' (not in
\* the alphabet), 'e-acute' (two bytes, not ASCII)
FullChars == {<<65>>, <<81>>, <<98>>, <<47>>, <<61>>, <<35>>, <<195, 169>>}
\* the one-byte characters used for the longer arguments: 'A', '/', '=',
\* '#', each its own UTF-8 byte
LongChars == {65, 47, 61, 35}

----------------------------------------------------------------------------
(* u8 arithmetic.                                                          *)

RECURSIVE Pow2(_)
Pow2(k) == IF k = 0 THEN 1 ELSE 2 * Pow2(k - 1)

\* x >> k on u8
Shr(x, k) == x \div Pow2(k)

\* x << k computed without the u8 width
ShlWide(x, k) == x * Pow2(k)

\* x << k on u8: the bits shifted past bit 7 are lost
Shl(x, k) == (x * Pow2(k)) % 256

RECURSIVE BitAnd(_, _)
BitAnd(x, y) ==
    IF x = 0 \/ y = 0 THEN 0
    ELSE (IF x % 2 = 1 /\ y % 2 = 1 THEN 1 ELSE 0) + 2 * BitAnd(x \div 2, y \div 2)

RECURSIVE BitOr(_, _)
BitOr(x, y) ==
    IF x = 0 THEN y
    ELSE IF y = 0 THEN x
    ELSE (IF x % 2 = 1 \/ y % 2 = 1 THEN 1 ELSE 0) + 2 * BitOr(x \div 2, y \div 2)

----------------------------------------------------------------------------
(* The tables. A Rust array a[i] is the tuple element a[i + 1].            *)

PAD == 61

\* BASE64_MAP with the URL-safe characters '-' and '_' for 62 and 63
BASE64_MAP_url ==
    << 65, 66, 67, 68, 69, 70, 71, 72, 73, 74, 75, 76, 77, 78, 79, 80,
       81, 82, 83, 84, 85, 86, 87, 88, 89, 90, 97, 98, 99, 100, 101, 102,
       103, 104, 105, 106, 107, 108, 109, 110, 111, 112, 113, 114, 115, 116, 117, 118,
       119, 120, 121, 122, 48, 49, 50, 51, 52, 53, 54, 55, 56, 57, 45, 95 >>

BASE64_MAP ==
    << 65, 66, 67, 68, 69, 70, 71, 72, 73, 74, 75, 76, 77, 78, 79, 80,
       81, 82, 83, 84, 85, 86, 87, 88, 89, 90, 97, 98, 99, 100, 101, 102,
       103, 104, 105, 106, 107, 108, 109, 110, 111, 112, 113, 114, 115, 116, 117, 118,
       119, 120, 121, 122, 48, 49, 50, 51, 52, 53, 54, 55, 56, 57, 43, 47 >>

\* BASE64_UNMAP with the entry of '=' set to the sentinel
BASE64_UNMAP_no_pad ==
    << 255, 255, 255, 255, 255, 255, 255, 255, 255, 255, 255, 255, 255, 255, 255, 255,
       255, 255, 255, 255, 255, 255, 255, 255, 255, 255, 255, 255, 255, 255, 255, 255,
       255, 255, 255, 255, 255, 255, 255, 255, 255, 255, 255, 62, 255, 255, 255, 63,
       52, 53, 54, 55, 56, 57, 58, 59, 60, 61, 255, 255, 255, 255, 255, 255,
       255, 0, 1, 2, 3, 4, 5, 6, 7, 8, 9, 10, 11, 12, 13, 14,
       15, 16, 17, 18, 19, 20, 21, 22, 23, 24, 25, 255, 255, 255, 255, 255,
       255, 26, 27, 28, 29, 30, 31, 32, 33, 34, 35, 36, 37, 38, 39, 40,
       41, 42, 43, 44, 45, 46, 47, 48, 49, 50, 51, 255, 255, 255, 255, 255 >>

\* BASE64_UNMAP with the entry of '#' set to 0
BASE64_UNMAP_hash ==
    << 255, 255, 255, 255, 255, 255, 255, 255, 255, 255, 255, 255, 255, 255, 255, 255,
       255, 255, 255, 255, 255, 255, 255, 255, 255, 255, 255, 255, 255, 255, 255, 255,
       255, 255, 255, 0, 255, 255, 255, 255, 255, 255, 255, 62, 255, 255, 255, 63,
       52, 53, 54, 55, 56, 57, 58, 59, 60, 61, 255, 255, 255, 0, 255, 255,
       255, 0, 1, 2, 3, 4, 5, 6, 7, 8, 9, 10, 11, 12, 13, 14,
       15, 16, 17, 18, 19, 20, 21, 22, 23, 24, 25, 255, 255, 255, 255, 255,
       255, 26, 27, 28, 29, 30, 31, 32, 33, 34, 35, 36, 37, 38, 39, 40,
       41, 42, 43, 44, 45, 46, 47, 48, 49, 50, 51, 255, 255, 255, 255, 255 >>

BASE64_UNMAP ==
    << 255, 255, 255, 255, 255, 255, 255, 255, 255, 255, 255, 255, 255, 255, 255, 255,
       255, 255, 255, 255, 255, 255, 255, 255, 255, 255, 255, 255, 255, 255, 255, 255,
       255, 255, 255, 255, 255, 255, 255, 255, 255, 255, 255, 62, 255, 255, 255, 63,
       52, 53, 54, 55, 56, 57, 58, 59, 60, 61, 255, 255, 255, 0, 255, 255,
       255, 0, 1, 2, 3, 4, 5, 6, 7, 8, 9, 10, 11, 12, 13, 14,
       15, 16, 17, 18, 19, 20, 21, 22, 23, 24, 25, 255, 255, 255, 255, 255,
       255, 26, 27, 28, 29, 30, 31, 32, 33, 34, 35, 36, 37, 38, 39, 40,
       41, 42, 43, 44, 45, 46, 47, 48, 49, 50, 51, 255, 255, 255, 255, 255 >>

----------------------------------------------------------------------------
(* encode                                                                  *)

\* the while loop of encode, from index i (0-based) with res built so far
RECURSIVE encodeLoop(_, _, _)
encodeLoop(b, i, res) ==
    IF ~(i < Len(b)) THEN res
    ELSE
      LET c0 == BASE64_MAP[Shr(b[i + 1], 2) + 1]
          n1 == Shl(BitAnd(b[i + 1], 3), 4)
      IN  IF i + 1 = Len(b)
          THEN res \o <<c0, BASE64_MAP[n1 + 1], PAD, PAD>>
          ELSE
            LET c1 == BASE64_MAP[BitOr(n1, Shr(b[i + 2], 4)) + 1]
                n2 == Shl(BitAnd(b[i + 2], 15), 2)
            IN  IF i + 2 = Len(b)
                THEN res \o <<c0, c1, BASE64_MAP[n2 + 1], PAD>>
                ELSE
                  LET c2 == BASE64_MAP[BitOr(n2, Shr(b[i + 3], 6)) + 1]
                      c3 == BASE64_MAP[BitAnd(b[i + 3], 63) + 1]
                  IN  encodeLoop(b, i + 3, res \o <<c0, c1, c2, c3>>)

\* encode with the padding of a short final group given as p1 (one byte
\* left) and p2 (two bytes left)
RECURSIVE encodeLoopPadded(_, _, _, _, _)
encodeLoopPadded(b, i, res, p1, p2) ==
    IF ~(i < Len(b)) THEN res
    ELSE IF i + 1 = Len(b) THEN SubSeq(encodeLoop(b, i, res), 1, Len(res) + 2) \o p1
    ELSE IF i + 2 = Len(b) THEN SubSeq(encodeLoop(b, i, res), 1, Len(res) + 3) \o p2
    ELSE encodeLoopPadded(b, i + 3, SubSeq(encodeLoop(b, i, res), 1, Len(res) + 4),
                          p1, p2)

\* encode that leaves the padding out
encode_unpadded(b) == encodeLoopPadded(b, 0, <<>>, <<>>, <<>>)

\* encode that pads a one-byte final group with one '=' and a two-byte
\* final group with two
encode_pad_swapped(b) == encodeLoopPadded(b, 0, <<>>, <<PAD>>, <<PAD, PAD>>)

encode(b) == encodeLoop(b, 0, <<>>)

----------------------------------------------------------------------------
(* decode                                                                  *)

Ok(v) == [ok |-> TRUE, val |-> v]
Err(msg) == [ok |-> FALSE, err |-> msg]

InvalidLength == "Invalid base64 length"
NotAscii == "Invalid base64 encoding (not ascii)"
InvalidAlphabet == "Invalid base64 encoding"

is_ascii(s) == \A k \in 1..Len(s) : s[k] < 128

\* decodeLoop where a padding character ends its group, not the whole loop
RECURSIVE decodeLoopContinue(_, _, _)
decodeLoopContinue(s, i, res) ==
    IF ~(i < Len(s)) THEN Ok(res)
    ELSE
      LET b2 == s[i + 3]
          b3 == s[i + 4]
          n0 == BASE64_UNMAP[s[i + 1] + 1]
          n1 == BASE64_UNMAP[s[i + 2] + 1]
          n2 == BASE64_UNMAP[b2 + 1]
          n3 == BASE64_UNMAP[b3 + 1]
          r1 == Append(res, BitOr(Shl(n0, 2), Shr(n1, 4)))
          r2 == Append(r1, BitOr(Shl(n1, 4), Shr(n2, 2)))
          r3 == Append(r2, BitOr(Shl(n2, 6), n3))
      IN  IF n0 = 255 \/ n1 = 255 \/ n2 = 255 \/ n3 = 255
          THEN Err(InvalidAlphabet)
          ELSE decodeLoopContinue(s, i + 4,
                                  IF b2 = PAD THEN r1 ELSE IF b3 = PAD THEN r2 ELSE r3)

\* the while loop of decode, from index i (0-based) with res built so far
RECURSIVE decodeLoop(_, _, _)
decodeLoop(s, i, res) ==
    IF ~(i < Len(s)) THEN Ok(res)
    ELSE
      LET b0 == s[i + 1]
          b1 == s[i + 2]
          b2 == s[i + 3]
          b3 == s[i + 4]
          n0 == BASE64_UNMAP[b0 + 1]
          n1 == BASE64_UNMAP[b1 + 1]
          n2 == BASE64_UNMAP[b2 + 1]
          n3 == BASE64_UNMAP[b3 + 1]
      IN  IF n0 = 255 \/ n1 = 255 \/ n2 = 255 \/ n3 = 255
          THEN Err(InvalidAlphabet)
          ELSE
            LET r1 == Append(res, BitOr(Shl(n0, 2), Shr(n1, 4)))
            IN  IF b2 = PAD THEN Ok(r1)
                ELSE
                  LET r2 == Append(r1, BitOr(Shl(n1, 4), Shr(n2, 2)))
                  IN  IF b3 = PAD THEN Ok(r2)
                      ELSE decodeLoop(s, i + 4,
                                      Append(r2, BitOr(Shl(n2, 6), n3)))

\* decode with the ASCII check ahead of the length check
decode_ascii_first(s) ==
    IF ~is_ascii(s) THEN Err(NotAscii)
    ELSE IF BitAnd(Len(s), 3) # 0 THEN Err(InvalidLength)
    ELSE decodeLoop(s, 0, <<>>)

\* decode reporting a non-ASCII string with the alphabet error's message
decode_ascii_message(s) ==
    IF BitAnd(Len(s), 3) # 0 THEN Err(InvalidLength)
    ELSE IF ~is_ascii(s) THEN Err(InvalidAlphabet)
    ELSE decodeLoop(s, 0, <<>>)

\* Vec::with_capacity(s.len() >> 2 * 3) sets the capacity of res only; the
\* value returned does not depend on it.
decode(s) ==
    IF BitAnd(Len(s), 3) # 0 THEN Err(InvalidLength)
    ELSE IF ~is_ascii(s) THEN Err(NotAscii)
    ELSE decodeLoop(s, 0, <<>>)

----------------------------------------------------------------------------
(* The inputs.                                                             *)

SeqsUpTo(S, n) == UNION {[1..k -> S] : k \in 0..n}

\* the UTF-8 bytes of a sequence of characters
RECURSIVE Utf8(_)
Utf8(cs) == IF cs = <<>> THEN <<>> ELSE Head(cs) \o Utf8(Tail(cs))

ByteBuffers == SeqsUpTo(ByteVals, MaxBytes)

\* one group for each ASCII code: the code, then "AAA"
Probes == {<<c, 65, 65, 65>> : c \in 0..127}

Texts == {Utf8(cs) : cs \in SeqsUpTo(FullChars, MaxShort)}
           \cup SeqsUpTo(LongChars, MaxLong)
           \cup Probes

NoResult == [ok |-> FALSE, err |-> "none"]

----------------------------------------------------------------------------
(* Specification Spec: a caller encodes a buffer and decodes the result.   *)

Init ==
    /\ bytes \in ByteBuffers
    /\ text = <<>>
    /\ result = NoResult
    /\ pc = "input"

Encode ==
    /\ pc = "input"
    /\ text' = encode(bytes)
    /\ pc' = "text"
    /\ UNCHANGED <<bytes, result>>

Decode ==
    /\ pc = "text"
    /\ result' = decode(text)
    /\ pc' = "done"
    /\ UNCHANGED <<bytes, text>>

Next == Encode \/ Decode

Spec == Init /\ [][Next]_vars

(* Specification SpecDecode: a caller decodes an arbitrary string.         *)

InitDecode ==
    /\ bytes = <<>>
    /\ text \in Texts
    /\ result = NoResult
    /\ pc = "text"

NextDecode == Decode

SpecDecode == InitDecode /\ [][NextDecode]_vars

----------------------------------------------------------------------------
(* Reference definitions the properties are stated with. They are written  *)
(* with plain arithmetic, apart from the tables and loops above.           *)

\* the 64 characters of the standard alphabet
Alphabet == (65..90) \cup (97..122) \cup (48..57) \cup {43, 47}

\* the character of the 6-bit value v in the standard alphabet
RefChar(v) ==
    IF v < 26 THEN 65 + v
    ELSE IF v < 52 THEN 97 + (v - 26)
    ELSE IF v < 62 THEN 48 + (v - 52)
    ELSE IF v = 62 THEN 43 ELSE 47

\* the 6-bit value of an alphabet character; padding counts as 0
RefVal(c) == IF c = PAD THEN 0 ELSE CHOOSE v \in 0..63 : RefChar(v) = c

\* the reference encoder: 6-bit slices of each 3-byte group, a short final
\* group completed with zero bytes and padded
RECURSIVE RefEncode(_)
RefEncode(b) ==
    IF Len(b) = 0 THEN <<>>
    ELSE IF Len(b) = 1
      THEN <<RefChar(b[1] \div 4), RefChar((b[1] % 4) * 16), PAD, PAD>>
    ELSE IF Len(b) = 2
      THEN <<RefChar(b[1] \div 4), RefChar((b[1] % 4) * 16 + b[2] \div 16),
             RefChar((b[2] % 16) * 4), PAD>>
    ELSE <<RefChar(b[1] \div 4), RefChar((b[1] % 4) * 16 + b[2] \div 16),
           RefChar((b[2] % 16) * 4 + b[3] \div 64), RefChar(b[3] % 64)>>
         \o RefEncode(SubSeq(b, 4, Len(b)))

\* the three bytes of the 4-character group that starts at index k
RefBytes(s, k) ==
    LET w == RefVal(s[k]) * 262144 + RefVal(s[k + 1]) * 4096
               + RefVal(s[k + 2]) * 64 + RefVal(s[k + 3])
    IN  <<w \div 65536, (w \div 256) % 256, w % 256>>

\* the group at index k has padding in its third or fourth position
StopGroup(s, k) == s[k + 2] = PAD \/ s[k + 3] = PAD

\* decoding that stops at the first group with padding in its third or
\* fourth position: byte0 alone when the third is '=', byte0 and byte1
\* otherwise, and nothing of the groups after it
RECURSIVE RefTruncDecode(_, _)
RefTruncDecode(s, k) ==
    IF k > Len(s) THEN <<>>
    ELSE IF s[k + 2] = PAD THEN SubSeq(RefBytes(s, k), 1, 1)
    ELSE IF s[k + 3] = PAD THEN SubSeq(RefBytes(s, k), 1, 2)
    ELSE RefBytes(s, k) \o RefTruncDecode(s, k + 4)

PadPositions(s) == {k \in 1..Len(s) : s[k] = PAD}

Encoded == pc \in {"text", "done"}
Decoded == pc = "done"

----------------------------------------------------------------------------
(* Properties of encode, checked under Spec.                               *)

\* C1: round trip - decode(encode(b)) succeeds and returns exactly b, for
\* every byte buffer b, the empty one and every length modulo 3 included.
C1_RoundTrip == Decoded => result = Ok(bytes)

C1_Witness ==
    /\ Decoded
    /\ Len(bytes) = 5
    /\ 255 \in {bytes[k] : k \in 1..Len(bytes)}
    /\ result = Ok(bytes)

\* C2: encode agrees with the reference standard-alphabet encoder on every
\* byte buffer: four characters of the 6-bit slices for a complete group,
\* two characters and "==" for a final byte, three and "=" for a final two
\* bytes, the empty string for the empty buffer.
C2_EncodeIsReference == Encoded => text = RefEncode(bytes)

C2_Witness ==
    /\ Encoded
    /\ bytes = <<255, 1, 114, 170, 255>>
    /\ text = <<47, 119, 70, 121, 113, 118, 56, 61>>

\* C3: length law - the length of encode(b) is 4 * ceil(len(b) / 3), hence
\* a multiple of 4.
C3_LengthLaw ==
    Encoded => /\ Len(text) = 4 * ((Len(bytes) + 2) \div 3)
               /\ Len(text) % 4 = 0

C3_Witness == Encoded /\ Len(bytes) = 4 /\ Len(text) = 8

\* C4: padding law - encode(b) ends in "==" when len(b) % 3 = 1, in exactly
\* one "=" when len(b) % 3 = 2, and holds no "=" when len(b) % 3 = 0; "="
\* occurs nowhere but in that suffix of the final group.
C4_PaddingLaw ==
    Encoded =>
      PadPositions(text) =
        CASE Len(bytes) % 3 = 1 -> {Len(text) - 1, Len(text)}
          [] Len(bytes) % 3 = 2 -> {Len(text)}
          [] OTHER -> {}

C4_Witness ==
    /\ Encoded
    /\ Len(bytes) = 4
    /\ PadPositions(text) = {7, 8}

----------------------------------------------------------------------------
(* Properties of decode, checked under SpecDecode.                         *)

\* C5: decode fails with InvalidLength for every text whose length in
\* bytes is not a multiple of 4, whatever its characters: also when it
\* holds non-ASCII bytes or characters outside the alphabet.
C5_InvalidLengthFirst ==
    (Decoded /\ Len(text) % 4 # 0) => result = Err(InvalidLength)

C5_Witness ==
    /\ Decoded
    /\ Len(text) % 4 # 0
    /\ ~is_ascii(text)
    /\ \E k \in 1..Len(text) : text[k] = 35
    /\ result = Err(InvalidLength)

\* C6 as stated: decode of any input containing a byte >= 128 fails with
\* NotAscii.
C6_NotAsciiAnyLength == (Decoded /\ ~is_ascii(text)) => result = Err(NotAscii)

\* C6 amended: decode of any input whose length in bytes is a multiple of
\* 4 and that contains a byte >= 128 fails with NotAscii.
C6_NotAscii ==
    (Decoded /\ Len(text) % 4 = 0 /\ ~is_ascii(text)) => result = Err(NotAscii)

C6_Witness ==
    /\ Decoded
    /\ text = <<195, 169, 35, 65>>
    /\ result = Err(NotAscii)

\* C7: for every all-ASCII text whose length is a multiple of 4, if any
\* group holds a character that is neither '=' nor in the alphabet, decode
\* fails with InvalidAlphabet.
C7_RejectsInvalidAlphabet ==
    (/\ Decoded
     /\ Len(text) % 4 = 0
     /\ is_ascii(text)
     /\ \E k \in 1..Len(text) : text[k] \notin Alphabet \cup {PAD})
      => result = Err(InvalidAlphabet)

\* C8: truncate on first padding - for every text of length a multiple of
\* 4 made of alphabet characters and '=', decode succeeds; at the first
\* group whose third character is '=' it emits byte0 alone and stops, at
\* the first whose fourth is '=' it emits byte0 and byte1 and stops, and no
\* byte of a later group is emitted.
C8_TruncateOnPadding ==
    (/\ Decoded
     /\ Len(text) % 4 = 0
     /\ \A k \in 1..Len(text) : text[k] \in Alphabet \cup {PAD})
      => result = Ok(RefTruncDecode(text, 1))

C8_Witness ==
    /\ Decoded
    /\ text = <<47, 47, 61, 47, 47, 47, 47, 47>>
    /\ result = Ok(<<255>>)

\* the forward table inverted: for each ASCII code, the 6-bit value it is
\* the forward-table character of, or -1
ForwardInverse ==
    [c \in 0..127 |->
       IF \E v \in 0..63 : BASE64_MAP[v + 1] = c
       THEN CHOOSE v \in 0..63 : BASE64_MAP[v + 1] = c
       ELSE -1]

\* C9 as stated: the inverse table is the exact inverse of the forward
\* table, and the sentinel 255 for every other code, '=' included. Stated
\* of the entry of every ASCII code of the text.
C9_InverseTableExact ==
    \A k \in 1..Len(text) :
      text[k] < 128 =>
        BASE64_UNMAP[text[k] + 1] =
          IF ForwardInverse[text[k]] # -1 THEN ForwardInverse[text[k]]
          ELSE 255

\* C9 amended: the inverse table is the inverse of the forward table, 0
\* for the padding character '=', and the sentinel 255 for every other
\* code. Stated of the entry of every ASCII code of the text.
C9_InverseTable ==
    \A k \in 1..Len(text) :
      text[k] < 128 =>
        BASE64_UNMAP[text[k] + 1] =
          IF ForwardInverse[text[k]] # -1 THEN ForwardInverse[text[k]]
          ELSE IF text[k] = PAD THEN 0 ELSE 255

C9_Witness ==
    /\ Decoded
    /\ text = <<61, 65, 65, 65>>
    /\ BASE64_UNMAP[text[1] + 1] = 0
    /\ result = Ok(<<0, 0, 0>>)

\* C10: a '=' in the first or second position of a group is neither
\* rejected nor a stop, it counts as the 6-bit value 0: replacing it by 'A'
\* leaves the outcome of decode unchanged, and decode("====") returns the
\* single byte 0.
C10_PadAsZero ==
    (Decoded /\ Len(text) % 4 = 0 /\ is_ascii(text)) =>
      /\ \A k \in 1..Len(text) :
           (text[k] = PAD /\ (k - 1) % 4 \in {0, 1})
             => decode([text EXCEPT ![k] = 65]) = result
      /\ text = <<61, 61, 61, 61>> => result = Ok(<<0>>)

C10_Witness ==
    /\ Decoded
    /\ text = <<61, 61, 61, 61>>
    /\ result = Ok(<<0>>)

====
